---- MODULE Spec2Model ----
(***************************************************************************)
(* Model of the match scraper: the per-match CSV store (scraper.py,        *)
(* append_and_save), the time resolver, the scheduler and the status       *)
(* (run_schedule.py, generate_status.py), the extractor and the enricher   *)
(* (scraper.py, extract_valid_entries, extract_object_id_mapping,          *)
(* scrape_once).                                                           *)
(***************************************************************************)
EXTENDS Integers, Sequences, FiniteSets, TLC

VARIABLES
    file,        \* the persisted CSV of one match: [exists, header, rows]
    apc,         \* position of the writer inside append_and_save
    df_new,      \* argument of the current / last append_and_save call
    df_combined, \* the merged frame that to_csv is writing
    fileBefore,  \* the file as it was when the current / last call started
    ret,         \* outcome of the last call: none, true, false, raised, killed
    wrote,       \* the current / last call opened the file for writing
    prevKeys,    \* natural keys of the batch of the call before the last one
    prevOk,      \* the call before the last one returned normally
    repeat,      \* the last call had the same batch as the one before it
    calls,       \* number of append_and_save calls made so far
    row,         \* the schedule row handed to the time resolver
    now,         \* the instant (UTC seconds) the row is resolved at
    verdict,     \* what is_active and the other schedule comparisons gave
    schedule,    \* the rows load_schedule returned, in file order
    clock,       \* datetime.now(timezone.utc), in seconds
    mpc,         \* position of main()
    main_now_utc, \* now_utc of main(): the instant captured at its start
    wk,          \* one worker process per schedule row: its position and locals
    data,        \* the dataset file of every match_id, as the status reads it
    status,      \* what summarize_status returned
    doc,         \* the JSON document embedded in the fetched page
    xout         \* what the extractor and the enricher made of it

storeVars == <<file, apc, df_new, df_combined, fileBefore, ret, wrote,
               prevKeys, prevOk, repeat, calls>>
timeVars == <<row, now, verdict>>
schedVars == <<schedule, clock, mpc, main_now_utc, wk, data, status>>
extractVars == <<doc, xout>>

----------------------------------------------------------------------------
(* Bounds of the model *)

\* longest batch of new records handed to one append_and_save call
MaxBatch == 2
\* number of append_and_save calls in one behaviour
MaxCalls == 2

----------------------------------------------------------------------------
(* Values: a cell of a DataFrame is a typed value, a cell of the CSV is text *)

Num(n) == [type |-> "int", n |-> n]
Txt(n) == [type |-> "str", n |-> n]

\* Sample natural keys (inningNumber, overNumber, ballNumber): the same ball
\* of two overs, so that only the whole key tells them apart.
EventKeys == { <<1, 0, 1>>, <<1, 1, 1>> }

\* Sample values of a non-key field: a number and a string of digits.
FieldValues == { Num(1), Txt(2) }

KeyCols == <<"inningNumber", "overNumber", "ballNumber">>

\* One scraped record: the counters are JSON numbers, the other field is any
\* JSON value.
Record(k, v) == [inningNumber |-> Num(k[1]), overNumber |-> Num(k[2]),
                 ballNumber |-> Num(k[3]), totalRuns |-> v]

Records == { Record(k, v) : k \in EventKeys, v \in FieldValues }

Batches == UNION { [1..n -> Records] : n \in 0..MaxBatch }

----------------------------------------------------------------------------
(* pandas: to_csv / read_csv *)

\* to_csv writes a cell as its text: 2 and "2" are both written as 2.
FormatCell(c) == c.n

\* read_csv parses a numeric text as a number, whatever was written.
ParseCell(t) == Num(t)

FormatRow(r) == [c \in DOMAIN r |-> FormatCell(r[c])]
ParseRow(t) == [c \in DOMAIN t |-> ParseCell(t[c])]

ToCsvRows(df) == [i \in 1..Len(df) |-> FormatRow(df[i])]
ReadCsv(f) == [i \in 1..Len(f.rows) |-> ParseRow(f.rows[i])]

Absent == [exists |-> FALSE, header |-> FALSE, rows |-> <<>>]
\* open(out_file, "w"): the file exists and holds no byte
Truncated == [exists |-> TRUE, header |-> FALSE, rows |-> <<>>]

\* pd.read_csv raises EmptyDataError on a file without a header line
ReadRaises(f) == f.exists /\ ~f.header

----------------------------------------------------------------------------
(* pandas: the frame operations of append_and_save *)

IsEmpty(df) == Len(df) = 0

Columns(df) == IF Len(df) = 0 THEN {} ELSE DOMAIN df[1]

Concat(a, b) == a \o b

\* drop_cols left empty: rows are compared as wholes
DropColsWholeRow(df) == << >>

\* line 116: the key columns present in the combined frame
DropCols(df) == SelectSeq(KeyCols, LAMBDA c : c \in Columns(df))

SameOn(r, s, cols) ==
    IF Len(cols) = 0 THEN r = s
    ELSE \A i \in 1..Len(cols) : r[cols[i]] = s[cols[i]]

RECURSIVE Keep(_, _, _)
\* the rows of df from index i on that satisfy keep(index)
Keep(df, i, ok) ==
    IF i > Len(df) THEN << >>
    ELSE (IF ok[i] THEN <<df[i]>> ELSE << >>) \o Keep(df, i + 1, ok)

\* drop_duplicates(subset=cols, keep="first")
DropDuplicatesFirst(df, cols) ==
    Keep(df, 1, [i \in 1..Len(df) |->
                   ~ \E j \in 1..(i - 1) : SameOn(df[i], df[j], cols)])

\* drop_duplicates(subset=cols, keep="last"): a row stays iff no later row
\* agrees with it on cols (on the whole row when cols is empty)
DropDuplicates(df, cols) ==
    Keep(df, 1, [i \in 1..Len(df) |->
                   ~ \E j \in (i + 1)..Len(df) : SameOn(df[i], df[j], cols)])

\* the merge without the drop_duplicates call
MergeNoDedup(df_final, new) == Concat(df_final, new)

\* lines 114-120: concat, then drop duplicates keeping the last
Merge(df_final, new) ==
    LET c == Concat(df_final, new)
    IN  DropDuplicates(c, DropCols(c))

----------------------------------------------------------------------------
(* append_and_save, step by step *)

KeyOf(r) == <<r.inningNumber, r.overNumber, r.ballNumber>>
KeysOf(df) == { KeyOf(df[i]) : i \in 1..Len(df) }

Returned == ret \in {"true", "false"}

\* The call up to the point where to_csv opens the file: read the stored
\* frame, return False on an empty batch, else merge.
AppendCall(b) ==
    /\ apc = "idle"
    /\ calls < MaxCalls
    /\ calls' = calls + 1
    /\ df_new' = b
    /\ fileBefore' = file
    /\ prevKeys' = KeysOf(df_new)
    /\ prevOk' = Returned
    /\ repeat' = (calls > 0 /\ b = df_new)
    /\ wrote' = FALSE
    /\ file' = file
    /\ IF ReadRaises(file)
       THEN /\ ret' = "raised"
            /\ apc' = "idle"
            /\ df_combined' = << >>
       ELSE IF IsEmpty(b)
       THEN /\ ret' = "false"
            /\ apc' = "idle"
            /\ df_combined' = << >>
       ELSE /\ ret' = "none"
            /\ apc' = "open"
            /\ df_combined' = Merge(ReadCsv(file), b)
    /\ UNCHANGED <<timeVars, schedVars, extractVars>>

\* to_csv opens out_file for writing, which truncates it
WriteOpen ==
    /\ apc = "open"
    /\ file' = Truncated
    /\ wrote' = TRUE
    /\ apc' = "write"
    /\ UNCHANGED <<df_new, df_combined, fileBefore, ret, prevKeys, prevOk,
                   repeat, calls>>
    /\ UNCHANGED <<timeVars, schedVars, extractVars>>

\* one flush of the write buffer: the header line if it is not there yet and
\* the next row; after the last row to_csv closes the file and the call
\* returns True
WriteFlush ==
    /\ apc = "write"
    /\ LET n == Len(file.rows)
           rows == ToCsvRows(df_combined)
           more == IF n < Len(rows) THEN <<rows[n + 1]>> ELSE << >>
       IN  /\ file' = [exists |-> TRUE, header |-> TRUE,
                       rows |-> file.rows \o more]
           /\ IF n + 1 >= Len(rows)
              THEN apc' = "idle" /\ ret' = "true"
              ELSE apc' = "write" /\ ret' = ret
    /\ UNCHANGED <<df_new, df_combined, fileBefore, wrote, prevKeys, prevOk,
                   repeat, calls>>
    /\ UNCHANGED <<timeVars, schedVars, extractVars>>

\* the worker process is killed while to_csv is writing; a later invocation
\* of the scheduler calls append_and_save again
Kill ==
    /\ apc = "write"
    /\ apc' = "idle"
    /\ ret' = "killed"
    /\ UNCHANGED <<file, df_new, df_combined, fileBefore, wrote, prevKeys,
                   prevOk, repeat, calls>>
    /\ UNCHANGED <<timeVars, schedVars, extractVars>>

StoreInit ==
    /\ file = Absent
    /\ apc = "idle"
    /\ df_new = << >>
    /\ df_combined = << >>
    /\ fileBefore = Absent
    /\ ret = "none"
    /\ wrote = FALSE
    /\ prevKeys = {}
    /\ prevOk = FALSE
    /\ repeat = FALSE
    /\ calls = 0

StoreNext ==
    \/ \E b \in Batches : AppendCall(b)
    \/ WriteOpen
    \/ WriteFlush
    \/ Kill

----------------------------------------------------------------------------
(* Time resolver: run_schedule.py, parse_time_guess_ist and is_active *)

\* Offset of tz.gettz("Asia/Kolkata") from UTC, in seconds (5 h 30 min)
IST == 19800

\* A timestamp text of the schedule. Times are seconds counted from
\* 2024-03-01T00:00:00 on the clock the text is written in:
\*   naive   "2024-03-01T20:00:00"         wall 72000
\*   offset  "2024-03-01T15:31:00+01:00"   wall 55860, off 3600
\*   bad     a text isoparse rejects
\*   missing no value in the row (None, or NaN from read_csv)
Naive(w) == [kind |-> "naive", wall |-> w, off |-> 0]
Offset(w, o) == [kind |-> "offset", wall |-> w, off |-> o]
Bad == [kind |-> "bad", wall |-> 0, off |-> 0]
Missing == [kind |-> "missing", wall |-> 0, off |-> 0]

TimeStrings == { Naive(72000), Naive(72060), Offset(52200, 0),
                 Offset(55860, 3600), Bad, Missing }

Instants == { 52170, 52200, 52230, 52260, 52290 }

\* the naive text read as if it were UTC already
parse_time_guess_utc(timestr) ==
    IF timestr.kind \in {"naive", "offset"}
    THEN [ok |-> TRUE, wall |-> timestr.wall, off |-> timestr.off]
    ELSE [ok |-> FALSE, wall |-> 0, off |-> 0]

\* isoparse(str(timestr)): raises (ok = FALSE) on a text it cannot parse,
\* str(None) and str(nan) included; a datetime without tzinfo gets IST.
parse_time_guess_ist(timestr) ==
    IF timestr.kind = "offset"
    THEN [ok |-> TRUE, wall |-> timestr.wall, off |-> timestr.off]
    ELSE IF timestr.kind = "naive"
    THEN [ok |-> TRUE, wall |-> timestr.wall, off |-> IST]
    ELSE [ok |-> FALSE, wall |-> 0, off |-> 0]

\* dt.astimezone(timezone.utc), as seconds on the UTC clock
astimezone_utc(dt) == dt.wall - dt.off

\* is_active with the end boundary left out
is_active_exclusive(match_row, now_utc) ==
    LET start == parse_time_guess_ist(match_row.start_time)
        end == parse_time_guess_ist(match_row.end_time)
    IN  IF ~start.ok \/ ~end.ok THEN "false"
        ELSE IF astimezone_utc(start) <= now_utc /\ now_utc < astimezone_utc(end)
             THEN "true" ELSE "false"

\* is_active, lines 42-54: a parse error is caught and gives False
is_active(match_row, now_utc) ==
    LET start == parse_time_guess_ist(match_row.start_time)
        end == parse_time_guess_ist(match_row.end_time)
    IN  IF ~start.ok \/ ~end.ok THEN "false"
        ELSE IF astimezone_utc(start) <= now_utc /\ now_utc <= astimezone_utc(end)
             THEN "true" ELSE "false"

\* the loop condition with end_time left on its own wall clock
worker_continues_wall(match_row, t) ==
    LET end == parse_time_guess_ist(match_row.end_time)
    IN  IF ~end.ok THEN "exit"
        ELSE IF t <= end.wall THEN "true" ELSE "false"

\* worker_task, lines 62-69: the loop condition at instant t; "exit" when
\* end_time does not parse
worker_continues(match_row, t) ==
    LET end == parse_time_guess_ist(match_row.end_time)
    IN  IF ~end.ok THEN "exit"
        ELSE IF t <= astimezone_utc(end) THEN "true" ELSE "false"

\* summarize_status, lines 92-103: the row is kept as a future match
is_future(match_row, now_utc) ==
    LET start == parse_time_guess_ist(match_row.start_time)
        end == parse_time_guess_ist(match_row.end_time)
    IN  IF ~start.ok \/ ~end.ok THEN "false"
        ELSE IF astimezone_utc(start) > now_utc THEN "true" ELSE "false"

\* the UTC instant of a timestamp text, -1 when it does not parse
utc_of(timestr) ==
    LET dt == parse_time_guess_ist(timestr)
    IN  IF dt.ok THEN astimezone_utc(dt) ELSE -1

NoRow == [match_id |-> "none", start_time |-> Missing, end_time |-> Missing,
          interval_seconds |-> 0]
NoVerdict == [done |-> FALSE, active |-> "none", polls |-> "none",
              future |-> "none", start_utc |-> -1, end_utc |-> -1]

TimeRows == { [match_id |-> "M1", start_time |-> s, end_time |-> e,
               interval_seconds |-> 0] : s, e \in TimeStrings }

TimeIdle == row = NoRow /\ now = 0 /\ verdict = NoVerdict

TimeInit ==
    /\ row \in TimeRows
    /\ now \in Instants
    /\ verdict = NoVerdict

\* every comparison the scheduler makes on a row's times, at instant now
Resolve ==
    /\ ~verdict.done
    /\ verdict' = [done |-> TRUE,
                   active |-> is_active(row, now),
                   polls |-> worker_continues(row, now),
                   future |-> is_future(row, now),
                   start_utc |-> utc_of(row.start_time),
                   end_utc |-> utc_of(row.end_time)]
    /\ UNCHANGED <<row, now>>
    /\ UNCHANGED <<storeVars, schedVars, extractVars>>

TimeNext == Resolve


----------------------------------------------------------------------------
(* Scheduler: run_schedule.py, main and worker_task *)

\* seconds between scrapes if the row names none
DEFAULT_INTERVAL == 60

\* how many times the clock is advanced past its first value
MaxTicks == 3

\* 14:30:00 UTC, the first instant of a behaviour
Clock0 == 14 * 3600 + 30 * 60
\* the clock is observed every 30 seconds
Ticks == { 30 }
MaxClock == Clock0 + MaxTicks * 30

\* what read_csv gives for an empty cell of a column that exists: the float
\* NaN, which is not a number of seconds
NaN == -1

\* Sample rows. interval_seconds = 0 stands for a schedule without the
\* column (get gives None) or with 0 in it; NaN for an empty cell.
\* 20:00:00 - 20:01:00 IST (14:30:00 - 14:31:00 UTC), no interval
RowM1 == [match_id |-> "M1", start_time |-> Naive(72000),
          end_time |-> Naive(72060), interval_seconds |-> 0]
\* 14:30:00Z - 15:31:30+01:00 (14:31:30 UTC), every 30 s
RowM2 == [match_id |-> "M2", start_time |-> Offset(52200, 0),
          end_time |-> Offset(55890, 3600), interval_seconds |-> 30]
\* a second row for M1: 14:30:00Z - 14:30:30Z, every 30 s
RowM1b == [match_id |-> "M1", start_time |-> Offset(52200, 0),
           end_time |-> Offset(52230, 0), interval_seconds |-> 30]
\* end_time unparseable
RowM3 == [match_id |-> "M3", start_time |-> Naive(72000),
          end_time |-> Bad, interval_seconds |-> 0]
\* starts 20:01:00 IST (14:31:00 UTC), ends 14:32:00 UTC
RowM4 == [match_id |-> "M4", start_time |-> Naive(72060),
          end_time |-> Naive(72120), interval_seconds |-> 60]

\* 14:30:00Z - 20:01:00 IST (14:31:00 UTC), the interval cell left empty
RowM5 == [match_id |-> "M5", start_time |-> Offset(52200, 0),
          end_time |-> Naive(72060), interval_seconds |-> NaN]

\* 14:31:00Z - 14:32:00Z: starts at the instant RowM4 starts
RowM6 == [match_id |-> "M6", start_time |-> Offset(52260, 0),
          end_time |-> Offset(52320, 0), interval_seconds |-> 30]
\* 20:01:30 - 20:02:30 IST (14:31:30 - 14:32:30 UTC)
RowM7 == [match_id |-> "M7", start_time |-> Naive(72090),
          end_time |-> Naive(72150), interval_seconds |-> 60]

\* Sample schedules, as load_schedule returns them
Schedules == { << >>, <<RowM1>>, <<RowM2>>, <<RowM3>>, <<RowM4>>,
               <<RowM1, RowM2>>, <<RowM2, RowM1>>, <<RowM1, RowM1b>>,
               <<RowM1, RowM1>>, <<RowM3, RowM1>>, <<RowM4, RowM2>>,
               <<RowM1, RowM4>>, <<RowM3, RowM4>>,
               <<RowM5>>, <<RowM5, RowM2>>, <<RowM2, RowM5>> }

WorkerIds == UNION { DOMAIN s : s \in Schedules }

\* line 59: NaN is truthy, so "NaN or DEFAULT_INTERVAL" is NaN, and int(NaN)
\* raises ValueError
IntervalRaises(match_row) == match_row.interval_seconds = NaN

\* line 59: int(match_row.get("interval_seconds") or DEFAULT_INTERVAL)
Interval(match_row) ==
    IF match_row.interval_seconds = 0 THEN DEFAULT_INTERVAL
    ELSE match_row.interval_seconds

\* line 261: the rows main() spawns a worker for
Active(t) == { i \in 1..Len(schedule) : is_active(schedule[i], t) = "true" }

\* Sample schedules for the status alone: rows that start at one instant,
\* rows whose order in the file is not the order of their start times
StatusSchedules ==
    Schedules \cup { <<RowM4, RowM6>>, <<RowM6, RowM4>>, <<RowM7, RowM4>>,
                     <<RowM2, RowM7, RowM6, RowM4>>, <<RowM2, RowM7, RowM3, RowM4>>,
                     <<RowM1, RowM2, RowM5>> }

MatchIds == {"M1", "M2", "M3", "M4", "M5", "M6", "M7"}

\* The dataset file of a match as the scheduler and the status see it: the
\* natural keys of its rows stand for the rows.
NoFile == [exists |-> FALSE, header |-> FALSE, keys |-> {}]
\* what a to_csv that was cut short leaves behind: a file without a header
ZeroByte == [exists |-> TRUE, header |-> FALSE, keys |-> {}]
Stored(ks) == [exists |-> TRUE, header |-> TRUE, keys |-> ks]

\* the ball a page shows
ScrapedKeys == {1}

\* Sample contents of match_data/ at the start of an invocation: nothing
\* there yet, or files that earlier invocations have left
DataSamples ==
    { [m \in MatchIds |-> NoFile],
      [m \in MatchIds |-> IF m = "M1" THEN ZeroByte
                          ELSE IF m = "M2" THEN Stored({1, 2})
                          ELSE NoFile] }

\* more of them, for the status alone
StatusDataSamples ==
    DataSamples \cup
    { [m \in MatchIds |-> IF m \in {"M2", "M5"} THEN ZeroByte
                          ELSE IF m = "M1" THEN Stored({2})
                          ELSE IF m = "M4" THEN Stored({1, 2})
                          ELSE NoFile] }

\* What the browser hands to scrape_once: a page with one ball in its JSON,
\* a page whose JSON holds no entry, a page without the script tag, a page
\* whose script is not JSON, or no page at all (goto raises).
Pages ==
    { [kind |-> "events", key |-> k] : k \in ScrapedKeys } \cup
    { [kind |-> x, key |-> 0] :
          x \in {"no_entries", "no_tag", "bad_json", "timeout"} }

\* scrape_once, lines 57-100: raises, or returns a frame (here: its keys)
scrape_once(page) ==
    IF page.kind = "timeout" THEN [raised |-> TRUE, keys |-> {}]
    ELSE IF page.kind = "no_tag" THEN [raised |-> FALSE, keys |-> {}]
    ELSE IF page.kind = "bad_json" THEN [raised |-> FALSE, keys |-> {}]
    ELSE IF page.kind = "no_entries" THEN [raised |-> FALSE, keys |-> {}]
    ELSE [raised |-> FALSE, keys |-> {page.key}]

\* summarize_status, lines 92-100: the rows whose two times parse, in
\* schedule order (as indices into the schedule)
Entries(sched) ==
    SelectSeq([i \in 1..Len(sched) |-> i],
              LAMBDA i : /\ parse_time_guess_ist(sched[i].start_time).ok
                         /\ parse_time_guess_ist(sched[i].end_time).ok)

\* line 103
Future(sched, now_utc) ==
    SelectSeq(Entries(sched), LAMBDA i : is_future(sched[i], now_utc) = "true")

\* a sort that would put the later of two rows with one start first
RankTiesReversed(sched, seq, q) ==
    1 + Cardinality({ r \in 1..Len(seq) :
            \/ utc_of(sched[seq[r]].start_time) < utc_of(sched[seq[q]].start_time)
            \/ /\ utc_of(sched[seq[r]].start_time) = utc_of(sched[seq[q]].start_time)
               /\ r > q })

\* sorted(), line 104, is stable: the place of seq[q] in the result is behind
\* every row that starts earlier and behind the rows that start at the same
\* instant and come before it in seq
Rank(sched, seq, q) ==
    1 + Cardinality({ r \in 1..Len(seq) :
            \/ utc_of(sched[seq[r]].start_time) < utc_of(sched[seq[q]].start_time)
            \/ /\ utc_of(sched[seq[r]].start_time) = utc_of(sched[seq[q]].start_time)
               /\ r < q })

\* line 104: sorted(future, key=lambda x: x["_start_dt"])
SortedByStart(sched, seq) ==
    [p \in 1..Len(seq) |->
        seq[CHOOSE q \in 1..Len(seq) : Rank(sched, seq, q) = p]]

\* line 113: next_match is None
NoMatch == [match_id |-> "null", start_time_ist |-> 0]

\* lines 105-113
next_match(sched, now_utc) ==
    LET future_sorted == SortedByStart(sched, Future(sched, now_utc))
    IN  IF future_sorted = << >> THEN NoMatch
        ELSE [match_id |-> sched[future_sorted[1]].match_id,
              start_time_ist |->
                  utc_of(sched[future_sorted[1]].start_time) + IST]

\* the lines of the file counted instead of the rows of the frame
rows_of_lines(f) == IF ~f.exists \/ ~f.header THEN 0 ELSE Cardinality(f.keys) + 1

\* lines 120-126: rows is 0 if the file does not exist or read_csv raises,
\* else len(df)
rows_of(f) ==
    IF ~f.exists THEN 0
    ELSE IF ~f.header THEN 0
    ELSE Cardinality(f.keys)

\* lines 116-135
active_matches(sched, now_utc, files) ==
    LET active == SelectSeq(Entries(sched),
                            LAMBDA i : is_active(sched[i], now_utc) = "true")
    IN  [p \in 1..Len(active) |->
            [match_id |-> sched[active[p]].match_id,
             rows |-> rows_of(files[sched[active[p]].match_id])]]

\* lines 81-139
summarize_status(sched, now_utc, files) ==
    [next_match |-> next_match(sched, now_utc),
     active_matches |-> active_matches(sched, now_utc, files)]

\* no status computed yet
NoStatus == [writes |-> 0, out |-> [next_match |-> NoMatch,
                                    active_matches |-> << >>]]

\* the status computed at the end of the run, from the clock of that moment
StatusInstantLate == clock

\* line 276: the status is computed from the instant captured at the start
StatusInstant == main_now_utc

NoWorker == [pc |-> "none", wake |-> 0, failed |-> FALSE, after_fail |-> FALSE,
             batch |-> {}]

\* a process that died would count as alive, and join would wait for it
RunningUnlessReturned(i) == wk[i].pc \notin {"none", "exited"}

\* the process of row i is alive: started, and neither returned nor died
Running(i) == wk[i].pc \notin {"none", "exited", "crashed"}

AppendOutcomes == {"true", "false", "raised"}

\* an exception inside the try block that nothing catches ends the process
OnErrorUncaught(w) == [w EXCEPT !.pc = "exited", !.failed = TRUE]

\* lines 74-76: the exception is caught and printed, then comes the sleep
OnError(w) == [w EXCEPT !.pc = "sleep", !.failed = TRUE]

SchedIdle ==
    /\ schedule = << >> /\ clock = 0 /\ mpc = "off" /\ main_now_utc = 0
    /\ wk = [i \in WorkerIds |-> NoWorker]
    /\ data = [m \in MatchIds |-> NoFile]
    /\ status = NoStatus

SchedInit ==
    /\ schedule \in Schedules
    /\ clock = Clock0
    /\ mpc = "start"
    /\ main_now_utc = 0
    /\ wk = [i \in WorkerIds |-> NoWorker]
    /\ data \in DataSamples
    /\ status = NoStatus

\* generate_status.main, lines 7-8: the schedule and the instant
GenInit ==
    /\ schedule \in StatusSchedules
    /\ clock \in Instants
    /\ mpc = "generate"
    /\ main_now_utc = 0
    /\ wk = [i \in WorkerIds |-> NoWorker]
    /\ data \in StatusDataSamples
    /\ status = NoStatus

\* generate_status.main, lines 8-11: the status of this instant
GenerateStatus ==
    /\ mpc = "generate"
    /\ main_now_utc' = clock
    /\ status' = [writes |-> status.writes + 1,
                  out |-> summarize_status(schedule, clock, data)]
    /\ mpc' = "done"
    /\ UNCHANGED <<schedule, clock, wk, data>>
    /\ UNCHANGED <<storeVars, timeVars, extractVars>>

\* time goes by; it stops at MaxClock unless a sleeper still waits
Pass(d) ==
    /\ mpc # "off"
    /\ \/ clock + d <= MaxClock
       \/ \E i \in WorkerIds : wk[i].pc = "sleeping" /\ wk[i].wake > clock
    /\ clock' = clock + d
    /\ UNCHANGED <<schedule, mpc, main_now_utc, wk, data, status>>
    /\ UNCHANGED <<storeVars, timeVars, extractVars>>

\* lines 258-263: capture now, load the schedule, pick the active rows
MainStart ==
    /\ mpc = "start"
    /\ main_now_utc' = clock
    /\ mpc' = IF Active(clock) = {} THEN "status" ELSE "spawn"
    /\ UNCHANGED <<schedule, clock, wk, data, status>>
    /\ UNCHANGED <<storeVars, timeVars, extractVars>>

\* lines 265-268: start a process for the next active row
MainSpawn ==
    /\ mpc = "spawn"
    /\ LET todo == { i \in Active(main_now_utc) : wk[i].pc = "none" }
           i == CHOOSE k \in todo : \A j \in todo : k <= j
       IN  /\ wk' = [wk EXCEPT ![i].pc = "start"]
           /\ mpc' = IF todo = {i} THEN "join" ELSE "spawn"
    /\ UNCHANGED <<schedule, clock, main_now_utc, data, status>>
    /\ UNCHANGED <<storeVars, timeVars, extractVars>>

\* lines 270-271: join returns once every worker has ended
MainJoin ==
    /\ mpc = "join"
    /\ \A i \in WorkerIds : ~Running(i)
    /\ mpc' = "status"
    /\ UNCHANGED <<schedule, clock, main_now_utc, wk, data, status>>
    /\ UNCHANGED <<storeVars, timeVars, extractVars>>

\* lines 276-279: the status is computed and written
MainStatus ==
    /\ mpc = "status"
    /\ status' = [writes |-> status.writes + 1,
                  out |-> summarize_status(schedule, StatusInstant, data)]
    /\ mpc' = "done"
    /\ UNCHANGED <<schedule, clock, main_now_utc, wk, data>>
    /\ UNCHANGED <<storeVars, timeVars, extractVars>>

\* lines 57-67: read the interval (an exception here is caught by nothing
\* and ends the process), parse end_time, return if it is invalid
WorkerStart(i) ==
    /\ wk[i].pc = "start"
    /\ wk' = [wk EXCEPT ![i].pc =
                IF IntervalRaises(schedule[i]) THEN "crashed"
                ELSE IF worker_continues(schedule[i], clock) = "exit"
                THEN "exited" ELSE "loop"]
    /\ UNCHANGED <<schedule, clock, mpc, main_now_utc, data, status>>
    /\ UNCHANGED <<storeVars, timeVars, extractVars>>

\* line 69: while datetime.now(timezone.utc) <= end_utc
WorkerCheck(i) ==
    /\ wk[i].pc = "loop"
    /\ wk' = [wk EXCEPT ![i] =
                IF worker_continues(schedule[i], clock) = "true"
                THEN [@ EXCEPT !.pc = "scrape", !.failed = FALSE,
                               !.after_fail = @ \/ wk[i].failed]
                ELSE [@ EXCEPT !.pc = "exited"]]
    /\ UNCHANGED <<schedule, clock, mpc, main_now_utc, data, status>>
    /\ UNCHANGED <<storeVars, timeVars, extractVars>>

\* line 71: scrape_once returns rows, returns an empty frame, or raises
WorkerScrape(i, page) ==
    /\ wk[i].pc = "scrape"
    /\ wk' = [wk EXCEPT ![i] =
                LET r == scrape_once(page)
                IN  IF r.raised THEN OnError(@)
                    ELSE [@ EXCEPT !.pc = IF r.keys # {} THEN "append"
                                          ELSE "append0",
                                   !.batch = r.keys]]
    /\ UNCHANGED <<schedule, clock, mpc, main_now_utc, data, status>>
    /\ UNCHANGED <<storeVars, timeVars, extractVars>>

\* lines 72-73: append_and_save reads the file if there is one (and raises
\* if read_csv does), then returns False for an empty frame, or writes the
\* merged rows and returns True, or raises because the write fails
WorkerAppend(i, r) ==
    /\ wk[i].pc \in {"append", "append0"}
    /\ LET f == data[schedule[i].match_id]
       IN  /\ \/ r = "raised" /\ f.exists /\ ~f.header
              \/ r = "false" /\ ~(f.exists /\ ~f.header)
                             /\ wk[i].pc = "append0"
              \/ r \in {"true", "raised"} /\ ~(f.exists /\ ~f.header)
                                          /\ wk[i].pc = "append"
           /\ data' = IF r = "true"
                      THEN [data EXCEPT ![schedule[i].match_id] =
                                Stored(f.keys \cup wk[i].batch)]
                      ELSE data
    /\ wk' = [wk EXCEPT ![i] =
                IF r = "raised"
                THEN OnError([@ EXCEPT !.batch = {}])
                ELSE [@ EXCEPT !.pc = "sleep", !.batch = {}]]
    /\ UNCHANGED <<schedule, clock, mpc, main_now_utc, status>>
    /\ UNCHANGED <<storeVars, timeVars, extractVars>>

\* line 76: time.sleep(interval) begins
WorkerSleep(i) ==
    /\ wk[i].pc = "sleep"
    /\ wk' = [wk EXCEPT ![i].pc = "sleeping",
                        ![i].wake = clock + Interval(schedule[i])]
    /\ UNCHANGED <<schedule, clock, mpc, main_now_utc, data, status>>
    /\ UNCHANGED <<storeVars, timeVars, extractVars>>

\* line 76: time.sleep(interval) returns, not before interval seconds passed
WorkerWake(i) ==
    /\ wk[i].pc = "sleeping"
    /\ clock >= wk[i].wake
    /\ wk' = [wk EXCEPT ![i].pc = "loop", ![i].wake = 0]
    /\ UNCHANGED <<schedule, clock, mpc, main_now_utc, data, status>>
    /\ UNCHANGED <<storeVars, timeVars, extractVars>>

SchedNext ==
    \/ \E d \in Ticks : Pass(d)
    \/ MainStart
    \/ MainSpawn
    \/ MainJoin
    \/ MainStatus
    \/ \E i \in WorkerIds : WorkerStart(i)
    \/ \E i \in WorkerIds : WorkerCheck(i)
    \/ \E i \in WorkerIds, page \in Pages : WorkerScrape(i, page)
    \/ \E i \in WorkerIds, r \in AppendOutcomes : WorkerAppend(i, r)
    \/ \E i \in WorkerIds : WorkerSleep(i)
    \/ \E i \in WorkerIds : WorkerWake(i)

----------------------------------------------------------------------------
(* Extractor and enricher: scraper.py, extract_valid_entries,              *)
(* extract_object_id_mapping and the enrichment of scrape_once             *)

\* JSON null, and None in Python
Null == [type |-> "null", n |-> 0]

\* A JSON value is a node: a scalar with its value, a list with its items
\* in order, or a map with its keys in document order (json.loads and dict
\* keep that order). An item of a list has the key "".
Scalar(c) == [t |-> "scalar", val |-> c, items |-> << >>]
KV(k, node) == [k |-> k, n |-> node]
List(nodes) ==
    [t |-> "list", val |-> Null,
     items |-> [p \in 1..Len(nodes) |-> KV("", nodes[p])]]
Dict(pairs) == [t |-> "dict", val |-> Null, items |-> pairs]

\* set(obj.keys())
KeySet(obj) == { obj.items[p].k : p \in 1..Len(obj.items) }

\* obj[key]
Item(obj, key) ==
    obj.items[CHOOSE p \in 1..Len(obj.items) : obj.items[p].k = key].n

\* obj.get(key): the value, None if the key is not there
Get(obj, key) == IF key \in KeySet(obj) THEN Item(obj, key).val ELSE Null

REQUIRED_KEYS ==
    { "wagonX", "wagonY", "wagonZone", "pitchLine", "pitchLength",
      "shotType", "shotControl", "inningNumber", "oversUnique", "oversActual",
      "overNumber", "ballNumber", "totalRuns", "batsmanRuns", "isFour",
      "isSix", "isWicket", "byes", "legbyes", "wides", "noballs",
      "penalties", "timestamp", "batsmanPlayerId", "nonStrikerPlayerId",
      "bowlerPlayerId", "totalInningRuns", "totalInningWickets" }

\* an extraction that would not look inside a map it has captured
RECURSIVE extract_outermost(_)
RECURSIVE OutermostOfItems(_, _)
OutermostOfItems(items, n) ==
    IF n = 0 THEN << >>
    ELSE OutermostOfItems(items, n - 1) \o extract_outermost(items[n].n)
extract_outermost(obj) ==
    IF obj.t = "dict" /\ REQUIRED_KEYS \subseteq KeySet(obj) THEN <<obj>>
    ELSE IF obj.t \in {"dict", "list"}
    THEN OutermostOfItems(obj.items, Len(obj.items))
    ELSE << >>

RECURSIVE extract_valid_entries(_)
RECURSIVE EntriesOfItems(_, _)
\* lines 25-26 and 28-30: the entries of the first n values, in order
EntriesOfItems(items, n) ==
    IF n = 0 THEN << >>
    ELSE EntriesOfItems(items, n - 1) \o extract_valid_entries(items[n].n)

\* lines 21-31
extract_valid_entries(obj) ==
    IF obj.t = "dict"
    THEN (IF REQUIRED_KEYS \subseteq KeySet(obj) THEN <<obj>> ELSE << >>)
             \o EntriesOfItems(obj.items, Len(obj.items))
    ELSE IF obj.t = "list"
    THEN EntriesOfItems(obj.items, Len(obj.items))
    ELSE << >>

\* Python truth of a scalar: None, 0 and "" (the text 0 here) are false
Falsy(c) == c.type = "null" \/ c.n = 0

\* a or b
Or(a, b) == IF Falsy(a) THEN b ELSE a

\* lines 36-39: the entry made of a map that has "id" and "objectId"
PlayerEntry(obj) ==
    [objectId |-> Get(obj, "objectId"),
     name |-> Or(Or(Get(obj, "name"), Get(obj, "fullName")),
                 Get(obj, "shortName"))]

\* the empty dict
NoMapping == << >>

\* {obj["id"]: entry} if the map has "id" and "objectId", else {}
OwnMapping(obj) ==
    IF "id" \in KeySet(obj) /\ "objectId" \in KeySet(obj)
    THEN [k \in {Get(obj, "id")} |-> PlayerEntry(obj)]
    ELSE NoMapping

\* an update that would keep the entry an id has already
update_keep_first(m1, m2) ==
    [k \in DOMAIN m1 \cup DOMAIN m2 |->
        IF k \in DOMAIN m1 THEN m1[k] ELSE m2[k]]

\* dict.update, and the assignment mapping[key] = entry: the entries of m2
\* replace those m1 has for the same ids
update(m1, m2) ==
    [k \in DOMAIN m1 \cup DOMAIN m2 |->
        IF k \in DOMAIN m2 THEN m2[k] ELSE m1[k]]

RECURSIVE extract_object_id_mapping(_)
RECURSIVE MappingOfItems(_, _, _)
\* lines 47-48 and 50-51: mapping.update(...) for the first n values
MappingOfItems(mapping, items, n) ==
    IF n = 0 THEN mapping
    ELSE update(MappingOfItems(mapping, items, n - 1),
                extract_object_id_mapping(items[n].n))

\* lines 33-53
extract_object_id_mapping(obj) ==
    IF obj.t = "dict"
    THEN LET own == update(NoMapping, OwnMapping(obj))
             player == IF "player" \in KeySet(obj)
                          /\ Item(obj, "player").t = "dict"
                       THEN update(own, OwnMapping(Item(obj, "player")))
                       ELSE own
         IN  MappingOfItems(player, obj.items, Len(obj.items))
    ELSE IF obj.t = "list"
    THEN MappingOfItems(NoMapping, obj.items, Len(obj.items))
    ELSE NoMapping

\* lines 82-87
role_map == [batsman |-> "batsmanPlayerId",
             nonStriker |-> "nonStrikerPlayerId",
             bowler |-> "bowlerPlayerId",
             outPlayer |-> "outPlayerId"]

\* a lookup that would take the id itself where the map has no entry
lookup_or_id(player_map, pid, field) ==
    IF pid \in DOMAIN player_map THEN player_map[pid][field] ELSE pid

\* lines 91-92: player_map.get(pid, {}).get(field)
lookup(player_map, pid, field) ==
    IF pid \in DOMAIN player_map THEN player_map[pid][field] ELSE Null

\* line 79, pd.DataFrame(entries): the cell of a record in a column; a
\* record without the key of the column gets NaN, which is no player id
Cell(entry, col) ==
    IF col \in KeySet(entry) THEN Item(entry, col).val
    ELSE [type |-> "nan", n |-> 0]

\* lines 89-95: the two fields each role adds to each record
enrich(entries, player_map) ==
    [e \in 1..Len(entries) |->
        [role \in DOMAIN role_map |->
            IF \E x \in 1..Len(entries) : role_map[role] \in KeySet(entries[x])
            THEN [objectId |-> lookup(player_map,
                                      Cell(entries[e], role_map[role]),
                                      "objectId"),
                  name |-> lookup(player_map,
                                  Cell(entries[e], role_map[role]), "name")]
            ELSE [objectId |-> Null, name |-> Null]]]

\* The keys of a ball-by-ball record, in the order the page writes them
EventOrder ==
    << "wagonX", "wagonY", "wagonZone", "pitchLine", "pitchLength",
       "shotType", "shotControl", "inningNumber", "oversUnique",
       "oversActual", "overNumber", "ballNumber", "totalRuns", "batsmanRuns",
       "isFour", "isSix", "isWicket", "byes", "legbyes", "wides", "noballs",
       "penalties", "timestamp", "batsmanPlayerId", "nonStrikerPlayerId",
       "bowlerPlayerId", "totalInningRuns", "totalInningWickets" >>

\* the value a sample record has under a key
EventValue(key, ball, batsman, bowler) ==
    IF key = "ballNumber" THEN Num(ball)
    ELSE IF key = "batsmanPlayerId" THEN batsman
    ELSE IF key = "bowlerPlayerId" THEN bowler
    ELSE IF key = "nonStrikerPlayerId" THEN Num(14)
    ELSE IF key = "inningNumber" THEN Num(1)
    ELSE Num(0)

\* a map with every required key, and the extra items after them
Event(ball, batsman, bowler, extra) ==
    Dict([p \in 1..Len(EventOrder) |->
             KV(EventOrder[p],
                Scalar(EventValue(EventOrder[p], ball, batsman, bowler)))]
         \o extra)

\* a map that lacks one required key, "totalInningWickets"
NearEvent ==
    Dict([p \in 1..(Len(EventOrder) - 1) |->
             KV(EventOrder[p],
                Scalar(EventValue(EventOrder[p], 4, Num(11), Num(12))))])

Ev1 == Event(1, Num(11), Num(12), << >>)
Ev2 == Event(2, Num(13), Num(12), <<KV("outPlayerId", Scalar(Num(11)))>>)
\* a record that holds another record
Ev3 == Event(3, Num(12), Num(11), <<KV("previous", Ev1)>>)

\* Sample contents of the list of records of a page
EventLists ==
    { << >>, <<Ev1>>, <<Ev1, Ev2>>, <<Ev3, NearEvent>>,
      <<List(<<Ev2>>), Scalar(Num(7)), NearEvent>> }

\* Sample player maps of a page: player 11 three times, with other object
\* ids and names under other keys or none; player 12 with name null; a map
\* without objectId; a map that holds one under "player"; a map that holds
\* another map for its own id
PA == Dict(<<KV("id", Scalar(Num(11))), KV("objectId", Scalar(Num(501))),
             KV("name", Scalar(Txt(1)))>>)
PB == Dict(<<KV("id", Scalar(Num(11))), KV("objectId", Scalar(Num(502))),
             KV("fullName", Scalar(Txt(2)))>>)
PC == Dict(<<KV("id", Scalar(Num(11))), KV("objectId", Scalar(Num(503)))>>)
PD == Dict(<<KV("id", Scalar(Num(12))), KV("objectId", Scalar(Num(504))),
             KV("name", Scalar(Null)), KV("shortName", Scalar(Txt(3)))>>)
PE == Dict(<<KV("id", Scalar(Num(13))), KV("name", Scalar(Txt(4)))>>)
PF == Dict(<<KV("player", PB), KV("role", Scalar(Txt(5)))>>)
PG == Dict(<<KV("id", Scalar(Num(11))), KV("objectId", Scalar(Num(505))),
             KV("name", Scalar(Txt(6))), KV("captain", PC)>>)

PlayerNodes == { PA, PB, PC, PD, PE, PF, PG }

\* the document of a page: props.players and props.comments
Page(players, events) ==
    Dict(<<KV("props", Dict(<<KV("players", List(players)),
                             KV("comments", List(events))>>)),
           KV("page", Scalar(Txt(7)))>>)

\* Sample documents: pages, and documents whose root is a record, a list
\* or a scalar
Docs ==
    { Page(players, events) :
          players \in [1..2 -> PlayerNodes], events \in EventLists }
    \cup { Ev3, List(<<Ev1, PA, Ev3>>), Scalar(Num(1)) }

NoXout == [entries_done |-> FALSE, entries |-> << >>, again |-> << >>,
           map_done |-> FALSE, player_map |-> NoMapping,
           frame_done |-> FALSE, frame |-> << >>]

ExtractIdle == doc = Scalar(Null) /\ xout = NoXout

ExtractInit == doc \in Docs /\ xout = NoXout

\* extract_valid_entries is called on the document, twice
ExtractEntries ==
    /\ ~xout.entries_done
    /\ xout' = [xout EXCEPT !.entries_done = TRUE,
                            !.entries = extract_valid_entries(doc),
                            !.again = extract_valid_entries(doc)]
    /\ UNCHANGED doc
    /\ UNCHANGED <<storeVars, timeVars, schedVars>>

\* extract_object_id_mapping is called on the document
MapIds ==
    /\ ~xout.map_done
    /\ xout' = [xout EXCEPT !.map_done = TRUE,
                            !.player_map = extract_object_id_mapping(doc)]
    /\ UNCHANGED doc
    /\ UNCHANGED <<storeVars, timeVars, schedVars>>

\* scrape_once, lines 75-95: the records of the document, enriched; the
\* frame is empty if there is no record
Enrich ==
    /\ ~xout.frame_done
    /\ xout' = [xout EXCEPT !.frame_done = TRUE,
                            !.frame =
                                IF extract_valid_entries(doc) = << >>
                                THEN << >>
                                ELSE enrich(extract_valid_entries(doc),
                                            extract_object_id_mapping(doc))]
    /\ UNCHANGED doc
    /\ UNCHANGED <<storeVars, timeVars, schedVars>>

ExtractNext == ExtractEntries \/ MapIds \/ Enrich

----------------------------------------------------------------------------
(* The specifications *)

vars == <<storeVars, timeVars, schedVars, extractVars>>

\* append_and_save alone: one writer on one match file
InitStore == StoreInit /\ TimeIdle /\ SchedIdle /\ ExtractIdle
SpecStore == InitStore /\ [][StoreNext]_vars

\* the time resolver alone, on every sample row and instant
InitTime == TimeInit /\ StoreInit /\ SchedIdle /\ ExtractIdle
SpecTime == InitTime /\ [][TimeNext]_vars

\* the extractor and the enricher alone, on every sample document
InitExtract == ExtractInit /\ StoreInit /\ TimeIdle /\ SchedIdle
SpecExtract == InitExtract /\ [][ExtractNext]_vars

\* one invocation of generate_status.main
InitStatus == GenInit /\ StoreInit /\ TimeIdle /\ ExtractIdle
SpecStatus == InitStatus /\ [][GenerateStatus]_vars

\* the same, where the process is scheduled until it has ended
FairSpecStatus == SpecStatus /\ WF_vars(GenerateStatus)

\* one invocation of run_schedule.main
Init == SchedInit /\ StoreInit /\ TimeIdle /\ ExtractIdle
Next == SchedNext
Spec == Init /\ [][Next]_vars

\* Every started process keeps being scheduled, every fetch, append and sleep
\* returns, and time goes on.
Fairness ==
    /\ \A i \in WorkerIds :
          /\ WF_vars(WorkerStart(i))
          /\ WF_vars(WorkerCheck(i))
          /\ WF_vars(\E page \in Pages : WorkerScrape(i, page))
          /\ WF_vars(\E r \in AppendOutcomes : WorkerAppend(i, r))
          /\ WF_vars(WorkerSleep(i))
          /\ WF_vars(WorkerWake(i))
    /\ WF_vars(\E d \in Ticks : Pass(d))
    /\ WF_vars(MainStart) /\ WF_vars(MainSpawn)
    /\ WF_vars(MainJoin) /\ WF_vars(MainStatus)

FairSpec == Spec /\ Fairness

----------------------------------------------------------------------------
(* Claims about the store *)

\* the last record of df with natural key k
LastWith(df, k) ==
    df[CHOOSE i \in 1..Len(df) :
         /\ KeyOf(df[i]) = k
         /\ \A j \in (i + 1)..Len(df) : KeyOf(df[j]) # k]



\* C1: at every instant the persisted dataset holds no two rows with the
\* same natural key (inningNumber, overNumber, ballNumber), whatever batches
\* were appended, batches that repeat a key included.
C1_NoDuplicateKeys ==
    \A i, j \in 1..Len(file.rows) :
        i # j => KeyOf(file.rows[i]) # KeyOf(file.rows[j])

\* C1 witness: a second append whose batch holds one key twice, a key that
\* was stored already, has returned True.
C1_Witness ==
    /\ apc = "idle" /\ ret = "true" /\ calls = 2
    /\ Len(df_new) = 2
    /\ KeyOf(df_new[1]) = KeyOf(df_new[2])
    /\ df_new[1] # df_new[2]
    /\ \E i \in 1..Len(fileBefore.rows) :
           KeyOf(fileBefore.rows[i]) = KeyOf(FormatRow(df_new[1]))
    /\ Len(file.rows) = 2

\* C2: after append(R1) and then append(R2) have both returned, every key
\* that occurs in R1 and in R2 is stored in exactly one row, and that row
\* holds the field values of the last record of R2 with that key.
C2_LastWriteWins ==
    (apc = "idle" /\ ret = "true" /\ prevOk /\ calls >= 2) =>
        \A k \in prevKeys \cap KeysOf(df_new) :
            /\ \E i \in 1..Len(file.rows) :
                   file.rows[i] = FormatRow(LastWith(df_new, k))
            /\ \A i \in 1..Len(file.rows) :
                   KeyOf(file.rows[i]) = KeyOf(FormatRow(LastWith(df_new, k)))
                       => file.rows[i] = FormatRow(LastWith(df_new, k))

\* C2 witness: R2 repeats a key of R1 (twice, with different values) and the
\* stored row for it differs from the one R1 had left.
C2_Witness ==
    /\ apc = "idle" /\ ret = "true" /\ prevOk /\ calls >= 2
    /\ Len(df_new) = 2
    /\ KeyOf(df_new[1]) = KeyOf(df_new[2])
    /\ df_new[1].totalRuns # df_new[2].totalRuns
    /\ KeyOf(df_new[1]) \in prevKeys
    /\ \E i \in 1..Len(fileBefore.rows), j \in 1..Len(file.rows) :
           /\ KeyOf(fileBefore.rows[i]) = KeyOf(file.rows[j])
           /\ fileBefore.rows[i] # file.rows[j]
           /\ file.rows[j] = FormatRow(df_new[2])

\* C3: a call with an empty batch returns False, leaves the persisted file
\* as it was (absent if it was absent) and does not open it for writing.
C3_EmptyAppendNoOp ==
    (calls > 0 /\ apc = "idle" /\ Len(df_new) = 0) =>
        /\ ret = "false"
        /\ file = fileBefore
        /\ ~wrote

C10_AtomicReplace ==
    \/ file = fileBefore
    \/ /\ file.exists /\ file.header
       /\ file.rows = ToCsvRows(df_combined)

\* C18: once a call is over, every natural key the file held before it is
\* still in the file, and the file is still there; after a call that wrote,
\* the keys of the file are those it held before together with those of the
\* batch; the file comes into being only by a call with at least one row.
C18_KeysOnlyGrow ==
    (apc = "idle" /\ calls > 0) =>
        /\ KeysOf(fileBefore.rows) \subseteq KeysOf(file.rows)
        /\ fileBefore.exists => file.exists
        /\ ret = "true" =>
               KeysOf(file.rows) = KeysOf(fileBefore.rows)
                                       \cup KeysOf(ToCsvRows(df_new))
        /\ (file.exists /\ ~fileBefore.exists) => Len(df_new) >= 1

----------------------------------------------------------------------------
(* Claims about the time resolver *)

Parses(timestr) == timestr.kind \in {"naive", "offset"}

\* the instant a text denotes: its own offset if it has one, else UTC+5:30
Denotes(timestr) ==
    IF timestr.kind = "offset" THEN timestr.wall - timestr.off
    ELSE timestr.wall - (5 * 3600 + 30 * 60)

Bool(b) == IF b THEN "true" ELSE "false"

\* C5: is_active gives true exactly when start_time and end_time both parse
\* and start <= now <= end as UTC instants, both ends included; a row with
\* an unparseable or missing time gives false, and nothing is raised.
C5_IsActive ==
    verdict.done =>
        verdict.active =
            Bool(/\ Parses(row.start_time)
                 /\ Parses(row.end_time)
                 /\ Denotes(row.start_time) <= now
                 /\ now <= Denotes(row.end_time))

\* C5 witness: start == now == end (one written in IST, one with an
\* offset) is active.
C5_Witness ==
    /\ verdict.done
    /\ verdict.active = "true"
    /\ Denotes(row.start_time) = now
    /\ Denotes(row.end_time) = now
    /\ row.start_time.kind # row.end_time.kind

\* C6: a text without zone information denotes its wall time minus 5:30, a
\* text with an offset its wall time minus that offset (20:00:00 without
\* offset is 14:30:00 UTC), and is_active, the worker's end check and the
\* next-match filter all compare these UTC instants.
C6_ZoneRule ==
    verdict.done =>
        /\ Parses(row.start_time) => verdict.start_utc = Denotes(row.start_time)
        /\ Parses(row.end_time) => verdict.end_utc = Denotes(row.end_time)
        /\ row.start_time = Naive(72000) => verdict.start_utc = 52200
        /\ Parses(row.end_time) =>
               verdict.polls = Bool(now <= Denotes(row.end_time))
        /\ (Parses(row.start_time) /\ Parses(row.end_time)) =>
               /\ verdict.future = Bool(Denotes(row.start_time) > now)
               /\ verdict.active = Bool(Denotes(row.start_time) <= now
                                        /\ now <= Denotes(row.end_time))

\* C6 witness: start 20:00:00 without offset, end 15:31:00+01:00, resolved
\* at 14:30:30 UTC: active and polling, which the wall-clock numbers alone
\* (20:00:00 > 14:30:30) would not give.
C6_Witness ==
    /\ verdict.done
    /\ row.start_time = Naive(72000)
    /\ row.end_time = Offset(55860, 3600)
    /\ now = 52230
    /\ verdict.start_utc = 52200
    /\ verdict.end_utc = 52260
    /\ verdict.active = "true"
    /\ verdict.polls = "true"
    /\ verdict.future = "false"

----------------------------------------------------------------------------
(* Claims about the scheduler *)

EndUtc(i) == utc_of(schedule[i].end_time)

\* C7: an error raised by the scrape or by the append of a cycle does not
\* end the worker: the next thing it does is the sleep of that cycle, for
\* the row's interval, and after the sleep the loop condition alone decides
\* whether another cycle runs.
C7_ErrorsCaught ==
    [][\A i \in WorkerIds :
         /\ (wk'[i].failed /\ ~wk[i].failed) => wk'[i].pc = "sleep"
         /\ (wk[i].failed /\ wk[i].pc = "sleep" /\ wk'[i] # wk[i]) =>
                /\ wk'[i].pc = "sleeping"
                /\ wk'[i].wake = clock + Interval(schedule[i])
         /\ (wk[i].failed /\ wk[i].pc = "sleeping" /\ wk'[i] # wk[i]) =>
                /\ wk'[i].pc = "loop"
                /\ clock >= wk[i].wake
         /\ (wk[i].failed /\ wk[i].pc = "loop" /\ wk'[i] # wk[i]) =>
                wk'[i].pc = IF clock <= EndUtc(i) THEN "scrape" ELSE "exited"
      ]_vars

\* C7 witness: a worker is scraping again in a cycle that follows a failed
\* one.
C7_Witness ==
    \E i \in WorkerIds : wk[i].pc = "scrape" /\ wk[i].after_fail

\* C8: a cycle starts only at an instant <= end_time, the loop goes on as
\* long as the instant read is <= end_time, and a running worker whose
\* clock has passed end_time eventually ends.
C8_PollUntilEnd ==
    /\ [][\A i \in WorkerIds :
            /\ (wk'[i].pc = "scrape" /\ wk[i].pc # "scrape") =>
                   clock <= EndUtc(i)
            /\ (wk[i].pc = "loop" /\ wk'[i] # wk[i]) =>
                   wk'[i].pc = IF clock <= EndUtc(i) THEN "scrape"
                               ELSE "exited"
         ]_vars
    /\ \A i \in WorkerIds :
           (Running(i) /\ clock > EndUtc(i)) ~> ~Running(i)

\* C8 witness: the worker of a row that was active at the start has run
\* more than one cycle and has ended, after end_time.
C8_Witness ==
    \E i \in WorkerIds :
        /\ wk[i].pc = "exited"
        /\ wk[i].after_fail
        /\ i \in Active(main_now_utc)
        /\ clock > EndUtc(i)

\* C9: no two running workers have the same match_id.
C9_SingleWriter ==
    \A i, j \in WorkerIds :
        (i # j /\ Running(i) /\ Running(j)) =>
            schedule[i].match_id # schedule[j].match_id

\* the row supplies no interval: the column is missing, or its cell is empty
NoInterval(match_row) == match_row.interval_seconds \in {0, NaN}

\* C19: the worker of a row without interval_seconds (no value in the row,
\* or no such column) runs its polling loop and sleeps 60 seconds between
\* cycles; the worker of a row with a positive interval sleeps that many
\* seconds.
C19_DefaultInterval ==
    [][\A i \in WorkerIds :
         /\ (wk[i].pc = "start" /\ wk'[i] # wk[i]
                /\ NoInterval(schedule[i])) =>
                wk'[i].pc \in {"loop", "exited"}
         /\ (wk[i].pc = "sleep" /\ wk'[i].pc = "sleeping") =>
                wk'[i].wake - clock =
                    IF NoInterval(schedule[i]) THEN 60
                    ELSE schedule[i].interval_seconds
      ]_vars

\* worker i has failed: one of its cycles raised, or its process died
Failed(i) == wk[i].failed \/ wk[i].after_fail \/ wk[i].pc = "crashed"

\* C11: a failure of one worker (an error in a cycle, or the death of the
\* process) changes nothing for any other active row: each was spawned, is
\* left as it is by the failing step, goes on polling as long as the clock
\* is <= its own end_time and ends only by its own loop condition; the join
\* returns once every worker has returned or died, and the status is
\* produced at the end of the invocation all the same.
C11_FailureIsolation ==
    /\ [][\A i, j \in WorkerIds :
            (i # j /\ (Failed(i) \/ Failed(i)')) =>
                /\ wk'[i] # wk[i] => wk'[j] = wk[j]
                /\ (wk[j].pc = "loop" /\ wk'[j] # wk[j]) =>
                       wk'[j].pc = IF clock <= EndUtc(j) THEN "scrape"
                                   ELSE "exited"
                /\ (wk'[j].pc = "exited" /\ wk[j].pc # "exited") =>
                       wk[j].pc \in {"start", "loop"}
         ]_vars
    /\ [](mpc \in {"join", "status", "done"} =>
             \A j \in Active(main_now_utc) : wk[j].pc # "none")
    /\ []((mpc = "join" /\ \A i \in WorkerIds :
                                wk[i].pc \in {"none", "exited", "crashed"})
             => ENABLED MainJoin)
    /\ \A j \in WorkerIds : (wk[j].pc = "start") ~> ~Running(j)
    /\ <>(mpc = "done")

\* C11 witness: the status was produced after one worker died at its start
\* and another one, which lived through a failed cycle of its own, polled
\* until its end_time had passed.
C11_Witness ==
    \E i, j \in WorkerIds :
        /\ i # j
        /\ wk[i].pc = "crashed"
        /\ wk[j].pc = "exited" /\ wk[j].after_fail
        /\ clock > EndUtc(j)
        /\ mpc = "done"

----------------------------------------------------------------------------
(* Claims about the status *)

\* the rows a status at instant t may name as next: both times parse and
\* the start is later than t
Upcoming(t) ==
    { i \in 1..Len(schedule) :
          /\ Parses(schedule[i].start_time)
          /\ Parses(schedule[i].end_time)
          /\ Denotes(schedule[i].start_time) > t }

\* the rows that are active at instant t
ActiveAt(t) ==
    { i \in 1..Len(schedule) :
          /\ Parses(schedule[i].start_time)
          /\ Parses(schedule[i].end_time)
          /\ Denotes(schedule[i].start_time) <= t
          /\ t <= Denotes(schedule[i].end_time) }

\* C12: next_match is the row with the least start among the rows whose
\* times parse and whose start is later than now, the first of them in the
\* schedule if several start at that instant; it is null if there is no
\* such row, and never a row that starts at now.
C12_NextMatch ==
    mpc = "done" =>
        LET nm == status.out.next_match
        IN  /\ Upcoming(main_now_utc) = {} <=> nm = NoMatch
            /\ \A i \in Upcoming(main_now_utc) :
                   (\A j \in Upcoming(main_now_utc) :
                       \/ Denotes(schedule[j].start_time)
                              > Denotes(schedule[i].start_time)
                       \/ /\ Denotes(schedule[j].start_time)
                              = Denotes(schedule[i].start_time)
                          /\ j >= i)
                   => /\ nm.match_id = schedule[i].match_id
                      /\ nm.start_time_ist
                             = Denotes(schedule[i].start_time) + 19800
            /\ nm # NoMatch => nm.start_time_ist - 19800 > main_now_utc

\* C12 witness: a row starts at now, two later rows start at one instant,
\* a row placed before them starts later still; the first of the two is
\* the next match.
C12_Witness ==
    /\ mpc = "done"
    /\ \E h, i, j, k \in 1..Len(schedule) :
           /\ Denotes(schedule[h].start_time) = main_now_utc
           /\ k < i /\ i < j
           /\ {i, j, k} \subseteq Upcoming(main_now_utc)
           /\ Denotes(schedule[i].start_time) = Denotes(schedule[j].start_time)
           /\ Denotes(schedule[k].start_time) > Denotes(schedule[i].start_time)
           /\ schedule[i].match_id # schedule[j].match_id
           /\ status.out.next_match.match_id = schedule[i].match_id

\* the p-th active row, in schedule order
NthActive(t, p) ==
    CHOOSE i \in ActiveAt(t) :
        Cardinality({ j \in ActiveAt(t) : j <= i }) = p

\* C13: active_matches lists the rows active at now, in schedule order,
\* each with the number of rows of its dataset file, 0 if the file is not
\* there or cannot be read; the status is produced whatever the files are;
\* a schedule of one active row without a file gives that row with 0 rows
\* and no next match.
C13_ActiveMatches ==
    /\ (mpc = "generate") ~> (mpc = "done")
    /\ [](mpc = "done" =>
          LET am == status.out.active_matches
              t == main_now_utc
          IN  /\ Len(am) = Cardinality(ActiveAt(t))
              /\ \A p \in 1..Len(am) :
                     LET mid == schedule[NthActive(t, p)].match_id
                     IN  /\ am[p].match_id = mid
                         /\ am[p].rows =
                                IF data[mid].exists /\ data[mid].header
                                THEN Cardinality(data[mid].keys) ELSE 0
              /\ (Len(schedule) = 1 /\ ActiveAt(t) = {1}
                     /\ ~data[schedule[1].match_id].exists) =>
                     /\ am = <<[match_id |-> schedule[1].match_id,
                                rows |-> 0]>>
                     /\ status.out.next_match = NoMatch)

\* C13 witness: two active rows, the file of the first cannot be read, the
\* file of the second holds two rows.
C13_Witness ==
    /\ mpc = "done"
    /\ Len(status.out.active_matches) = 2
    /\ data[status.out.active_matches[1].match_id] = ZeroByte
    /\ status.out.active_matches[1].rows = 0
    /\ status.out.active_matches[2].rows = 2

\* C20: workers exist for the rows active at the instant main() captured
\* at its start and for no other row; the status is computed once, when
\* every spawned worker has ended, or at once if no row is active; the
\* match_ids it lists as active are those of the spawned workers, in
\* schedule order.
C20_SpawnThenStatus ==
    /\ [](\A i \in WorkerIds :
             wk[i].pc # "none" => i \in ActiveAt(main_now_utc))
    /\ [](mpc \in {"join", "status", "done"} =>
             \A i \in ActiveAt(main_now_utc) : wk[i].pc # "none")
    /\ [](status.writes = IF mpc = "done" THEN 1 ELSE 0)
    /\ [](mpc = "status" => ENABLED MainStatus)
    /\ [][status' # status =>
            /\ \A i \in WorkerIds : ~Running(i)
            /\ \A i \in ActiveAt(main_now_utc) :
                   wk[i].pc \in {"exited", "crashed"}
         ]_vars
    /\ [](mpc = "done" =>
             LET am == status.out.active_matches
                 spawned == { i \in WorkerIds : wk[i].pc # "none" }
             IN  /\ Len(am) = Cardinality(spawned)
                 /\ \A p \in 1..Len(am) :
                        /\ NthActive(main_now_utc, p) \in spawned
                        /\ am[p].match_id =
                               schedule[NthActive(main_now_utc, p)].match_id)

\* C20 witness: two workers of different matches were spawned and have
\* ended, time has passed since the start, and the status lists both.
C20_Witness ==
    /\ mpc = "done"
    /\ clock > main_now_utc
    /\ Len(schedule) = 2
    /\ schedule[1].match_id # schedule[2].match_id
    /\ wk[1].pc = "exited" /\ wk[2].pc = "exited"
    /\ Len(status.out.active_matches) = 2
    /\ status.out.active_matches[1].match_id = schedule[1].match_id
    /\ status.out.active_matches[2].match_id = schedule[2].match_id

\* C16: a page without the script tag, or with a script that is not JSON,
\* gives an empty frame and no error; the append that follows returns
\* False, leaves the dataset file as it is and raises nothing, and the
\* worker goes on to its sleep.
C16_NoDataCycle ==
    [][\A i \in WorkerIds :
         /\ \A page \in Pages :
                (page.kind \in {"no_tag", "bad_json"}
                    /\ WorkerScrape(i, page)) =>
                    /\ wk'[i].pc = "append0"
                    /\ wk'[i].batch = {}
                    /\ ~wk'[i].failed
         /\ (wk[i].pc = "append0" /\ wk'[i] # wk[i]) =>
                /\ WorkerAppend(i, "false")
                /\ wk'[i].pc = "sleep"
                /\ ~wk'[i].failed
                /\ data' = data
      ]_vars

----------------------------------------------------------------------------
(* Claims about the extractor and the enricher *)

RECURSIVE Paths(_)
\* the places of a document: the child numbers that lead from the root to
\* a node
Paths(node) ==
    {<< >>} \cup
    UNION { { <<p>> \o q : q \in Paths(node.items[p].n) } :
                p \in 1..Len(node.items) }

RECURSIVE NodeAt(_, _)
NodeAt(node, path) ==
    IF path = << >> THEN node
    ELSE NodeAt(node.items[path[1]].n, Tail(path))

\* the node at p is visited before the node at q in a walk that visits a
\* node first and then its children in order
Before(p, q) ==
    \E i \in 1..Len(q) :
        /\ \A j \in 1..(i - 1) : j <= Len(p) /\ p[j] = q[j]
        /\ \/ i > Len(p)
           \/ p[i] < q[i]

\* the places of the maps that have every required key
Captured(d) ==
    { p \in Paths(d) :
          /\ NodeAt(d, p).t = "dict"
          /\ REQUIRED_KEYS \subseteq KeySet(NodeAt(d, p)) }

\* C14: extract_valid_entries returns the maps of the document that have
\* every required key, each once, in the order of a walk that visits a node
\* before its children, those inside a captured map included; no list and
\* no scalar is returned; a second call returns the same sequence.
C14_PreOrderCapture ==
    xout.entries_done =>
        /\ Len(xout.entries) = Cardinality(Captured(doc))
        /\ \A p \in Captured(doc) :
               xout.entries[1 + Cardinality({ q \in Captured(doc) :
                                                 Before(q, p) })]
                   = NodeAt(doc, p)
        /\ \A e \in 1..Len(xout.entries) : xout.entries[e].t = "dict"
        /\ xout.again = xout.entries

\* C14 witness: a captured map holds another one, which is returned right
\* after it, and a map that lacks a required key is in the document.
C14_Witness ==
    /\ xout.entries_done
    /\ Len(xout.entries) = 2
    /\ \E p, q \in Captured(doc) :
           /\ Len(p) < Len(q)
           /\ SubSeq(q, 1, Len(p)) = p
           /\ xout.entries[1] = NodeAt(doc, p)
           /\ xout.entries[2] = NodeAt(doc, q)
    /\ \E p \in Paths(doc) :
           /\ NodeAt(doc, p).t = "dict"
           /\ KeySet(NodeAt(doc, p)) \cap REQUIRED_KEYS # {}
           /\ p \notin Captured(doc)

\* the places of the maps that have "id" and "objectId"
Occurrences(d) ==
    { p \in Paths(d) :
          /\ NodeAt(d, p).t = "dict"
          /\ {"id", "objectId"} \subseteq KeySet(NodeAt(d, p)) }

\* the name of a player map: name, else fullName, else shortName
NameOf(node) ==
    IF ~Falsy(Get(node, "name")) THEN Get(node, "name")
    ELSE IF ~Falsy(Get(node, "fullName")) THEN Get(node, "fullName")
    ELSE Get(node, "shortName")

\* C15: the identity map has an entry for exactly the ids of the maps that
\* have "id" and "objectId"; where an id occurs more than once, its entry
\* holds the objectId and the name of the occurrence visited last, and
\* nothing of an earlier one.
C15_LastVisitedWins ==
    xout.map_done =>
        /\ DOMAIN xout.player_map =
               { Get(NodeAt(doc, p), "id") : p \in Occurrences(doc) }
        /\ \A p \in Occurrences(doc) :
               (\A q \in Occurrences(doc) :
                    Get(NodeAt(doc, q), "id") = Get(NodeAt(doc, p), "id")
                        => ~Before(p, q))
               => xout.player_map[Get(NodeAt(doc, p), "id")] =
                      [objectId |-> Get(NodeAt(doc, p), "objectId"),
                       name |-> NameOf(NodeAt(doc, p))]

\* C15 witness: an id occurs twice, first with a name, then with another
\* objectId and no name; the entry has the second objectId and no name.
C15_Witness ==
    /\ xout.map_done
    /\ \E p, q \in Occurrences(doc) :
           /\ Before(p, q)
           /\ Get(NodeAt(doc, p), "id") = Get(NodeAt(doc, q), "id")
           /\ Get(NodeAt(doc, p), "objectId") # Get(NodeAt(doc, q), "objectId")
           /\ NameOf(NodeAt(doc, p)) # Null
           /\ NameOf(NodeAt(doc, q)) = Null
           /\ xout.player_map[Get(NodeAt(doc, q), "id")] =
                  [objectId |-> Get(NodeAt(doc, q), "objectId"),
                   name |-> Null]

\* the player-id field of a role
RoleField(role) ==
    IF role = "batsman" THEN "batsmanPlayerId"
    ELSE IF role = "nonStriker" THEN "nonStrikerPlayerId"
    ELSE IF role = "bowler" THEN "bowlerPlayerId"
    ELSE "outPlayerId"

NoPlayer == [objectId |-> Null, name |-> Null]

\* C17: a record gets, for each of the four roles, the objectId and the
\* name of the identity-map entry of the id in the role's field; if the map
\* has no entry for the id, or the record has no such field, or no record
\* has it, the two fields of that role are null in that record.
C17_Enrichment ==
    (xout.frame_done /\ xout.entries_done /\ xout.map_done) =>
        /\ Len(xout.frame) = Len(xout.entries)
        /\ \A e \in 1..Len(xout.frame) :
               \A role \in {"batsman", "nonStriker", "bowler", "outPlayer"} :
                   xout.frame[e][role] =
                       IF /\ RoleField(role) \in KeySet(xout.entries[e])
                          /\ Get(xout.entries[e], RoleField(role))
                                 \in DOMAIN xout.player_map
                       THEN xout.player_map[Get(xout.entries[e],
                                                RoleField(role))]
                       ELSE NoPlayer

\* C17 witness: one record whose batsman is in the map and whose record has
\* no outPlayerId, another whose batsman is not in the map and whose
\* outPlayerId is, and a non-striker that is in no map.
C17_Witness ==
    /\ xout.frame_done /\ xout.entries_done /\ xout.map_done
    /\ \E e, x \in 1..Len(xout.frame) :
           /\ xout.frame[e]["batsman"].objectId # Null
           /\ "outPlayerId" \notin KeySet(xout.entries[e])
           /\ xout.frame[e]["outPlayer"] = NoPlayer
           /\ xout.frame[x]["batsman"] = NoPlayer
           /\ xout.frame[x]["outPlayer"].objectId # Null
           /\ xout.frame[x]["nonStriker"] = NoPlayer

====
